---------------------------- MODULE Spec2Model ----------------------------
(***************************************************************************)
(* Speech2Clip: the recording-session / recognition pipeline.              *)
(*                                                                         *)
(* The repository has three entry points that run the pipeline, and the   *)
(* variable `mode` says which program is running:                         *)
(*   "gui"      gui_main_qt.py  (Speech2ClipGUI, the Qt main thread, the  *)
(*              capture worker record_audio, the recognition worker       *)
(*              do_recognition and the HotkeyManager listener thread)     *)
(*   "cli"      cli_demo.py     (custom_record_with_silence_detection)    *)
(*   "recorder" audio_recorder.py (AudioRecorder and its recording thread)*)
(***************************************************************************)
EXTENDS Integers, Sequences, FiniteSets, TLC

VARIABLES
    mode,           \* which program runs: "gui", "cli" or "recorder"
    budget,         \* sessions the user starts in this run of the program
    \* ---- environment, fixed when the process starts
    opencc_ok,      \* the opencc package is importable (to_simplified converts)
    clipboard_ok,   \* pyperclip has a working clipboard mechanism
    \* ---- Speech2ClipGUI fields
    is_recording,   \* self.is_recording
    audio_frames,   \* self.audio_frames: per session, its chunks in the buffer
    history,        \* self.history: texts, oldest first
    history_file,   \* content of ~/.speech2clip_history.json
    clipboard,      \* the system clipboard
    \* ---- threads of the GUI process
    cap,            \* capture workers (record_audio), one per started session
    rec,            \* recognition workers (do_recognition), one per session
    nstarted,       \* number of capture workers started so far
    mainq,          \* events queued for the Qt main thread, in order
    hk,             \* HotkeyManager listener thread running trigger_record
    \* ---- observation of the sessions
    outcomes,       \* per session: results or failure messages shown to the user
    backend_calls,  \* per session: calls of recognize_from_file
    whisper_loads,  \* calls of whisper.load_model made for transcription
    \* ---- cli_demo.py
    cli,            \* custom_record_with_silence_detection: its locals
    \* ---- AudioRecorder
    ar,             \* fields of the AudioRecorder, its thread and its caller
    \* ---- the library classes, each run on its own
    sr,             \* a SpeechRecognizer and the last call made on it
    cm,             \* a ClipboardManager, the system clipboard it writes
    cfg             \* a ConfigManager and the last call made on it

vars == <<mode, budget, opencc_ok, clipboard_ok, is_recording, audio_frames, history,
          history_file, clipboard, cap, rec, nstarted, mainq, hk, outcomes,
          backend_calls, whisper_loads, cli, ar, sr, cm, cfg>>


envVars == <<mode, budget, opencc_ok, clipboard_ok>>

libVars == <<sr, cm, cfg>>

guiVars == <<is_recording, audio_frames, history, history_file, clipboard,
             cap, rec, nstarted, mainq, hk, outcomes, backend_calls,
             whisper_loads>>

(***************************************************************************)
(* Bounds of the model.                                                    *)
(***************************************************************************)
\* capture sessions the user may start in one run of the GUI
MaxSessions == 2
\* the same, in the runs with one session after the other
OneSession == 1
\* chunks an AudioRecorder recording may hold
MaxArChunks == 2
\* self.max_history (10 in the source), scaled down
MaxHistory == 2
\* max_silence * 16000 // 1024 (78 in the source), scaled down
GuiSilenceChunks == 1
\* chunks after which time.time() - start_time > max_duration (235), scaled down
GuiMaxChunks == 3
\* int(RATE / CHUNK * silence_seconds) of the CLI loop (78), scaled down
CliSilenceLimit == 2
\* int(RATE / CHUNK * max_seconds) of the CLI loop (156), scaled down
CliMaxChunks == 4
\* the silence threshold on the scale of loudness levels 0..MaxLevel
Threshold == 1
\* loudest level a chunk may have
MaxLevel == 2
\* results delivered in a run of the history handlers
MaxDeliveries == 3
\* segments in a Whisper result
MaxSegments == 2
\* a segment's confidence is one of 0/ScoreDen .. ScoreDen/ScoreDen
ScoreDen == 2

Sessions == 1..MaxSessions

\* the empty buffer.  A chunk is known by the session whose worker read it,
\* and the buffer by how many chunks of each session it holds.
NoFrames == [w \in Sessions |-> 0]

(***************************************************************************)
(* Texts.  "t" is a text with traditional characters whose simplified form *)
(* is "s"; "" is the empty transcription; ErrText is the text              *)
(* '[识别失败] ...' built in do_recognition's except branch; "c0" is what *)
(* the clipboard held before the program ran.                             *)
(***************************************************************************)
ErrText == "[fail]"
BackendTexts == {"", "t"}

\* to_simplified: OpenCC('t2s').convert(text), or the text itself when
\* opencc cannot be imported (the except branch returns text unchanged).
to_simplified(text) ==
    IF opencc_ok /\ text = "t" THEN "s" ELSE text

\* the loudness levels a GUI chunk can have: level = sum/2^25 is never equal
\* to the float 0.01, so a chunk is either below or above the threshold
GuiLevels == (0..MaxLevel) \ {Threshold}

\* what np.sqrt(np.mean(audio_np ** 2)) yields when the int16 squares wrap
\* around to a negative mean: not a number
NaN == 0 - 1

\* the values the CLI loop can compute for a chunk's rms
CliLevels == (0..MaxLevel) \cup {NaN}

NoCap == [pc |-> "none", silence_count |-> 0, n |-> 0, level |-> 0,
          stream |-> "none"]
\* a record_audio thread that has ended: its locals are gone, the stream
\* it opened is closed or left open
thread_ended(pc, stream) ==
    [pc |-> pc, silence_count |-> 0, n |-> 0, level |-> 0, stream |-> stream]
NoRec == [pc |-> "none", text |-> ""]
\* RATE of the CLI capture, and the bytes of a paInt16 sample
RATE == 16000
SampleWidth == 2
\* the rate and the width in sr.AudioData(audio_data, 44100, 2)
AudioDataRate == 44100
AudioDataWidth == 2

\* the format of audio samples
Format(sample_rate, sample_width) ==
    [sample_rate |-> sample_rate, sample_width |-> sample_width]
NoFormat == Format(0, 0)

NoCli == [pc |-> "off", i |-> 0, silent_chunks |-> 0, frames |-> <<>>,
          stream |-> "none", format |-> NoFormat, declared |-> NoFormat]
NoAr  == [is_recording |-> FALSE, stream |-> "none", frames |-> 0,
          thread |-> "none", threads |-> 0, start_cb |-> 0,
          caller |-> "idle", op |-> "none", ret |-> "none", tick |-> 0]

Event(type, w, text) == [type |-> type, sess |-> w, text |-> text]


(***************************************************************************)
(* Speech2ClipGUI.toggle_recording (gui_main_qt.py 716-733).               *)
(***************************************************************************)
\* the else branch: is_recording = True, audio_frames = [], a new capture
\* thread running record_audio is started
start_branch ==
    /\ nstarted < budget
    /\ is_recording' = TRUE
    /\ audio_frames' = NoFrames
    /\ nstarted' = nstarted + 1
    /\ cap' = [cap EXCEPT ![nstarted + 1] = [NoCap EXCEPT !.pc = "open"]]

\* the if branch: is_recording = False, nothing else of the session changes
stop_branch ==
    /\ is_recording' = FALSE
    /\ UNCHANGED <<audio_frames, nstarted, cap>>

\* the record button's clicked signal and QHotkey's activated signal both
\* run toggle_recording on the Qt main thread
toggle_recording ==
    /\ mode = "gui"
    /\ UNCHANGED <<envVars, libVars, cli, ar>>
    /\ IF is_recording THEN stop_branch ELSE start_branch
    /\ UNCHANGED <<history, history_file, clipboard, rec, mainq, hk,
                   outcomes,
                   backend_calls, whisper_loads>>

(***************************************************************************)
(* trigger_record (gui_main_qt.py 1273-1276), the callback the keyboard    *)
(* library runs on its own listener thread.  It reads gui.is_recording and *)
(* calls toggle_recording, which reads it again and then acts; the reads   *)
(* and the writes interleave with the main thread and the workers.  The    *)
(* two reads are one step here: a second read that sees True takes the     *)
(* stop branch, whose effect is that of toggle_recording's stop branch on  *)
(* the main thread in the same state, so no state is lost.                 *)
(***************************************************************************)
trigger_record_check ==
    /\ mode = "gui"
    /\ UNCHANGED <<envVars, libVars, cli, ar>>
    /\ hk = "idle"
    /\ ~is_recording
    /\ nstarted < budget
    /\ hk' = "start"
    /\ UNCHANGED <<is_recording, audio_frames, history, history_file,
                   clipboard, cap, rec, nstarted, mainq, outcomes,
                   backend_calls, whisper_loads>>

\* the else branch of toggle_recording, run by the listener thread
trigger_record_act ==
    /\ mode = "gui"
    /\ UNCHANGED <<envVars, libVars, cli, ar>>
    /\ hk = "start"
    /\ start_branch
    /\ hk' = "idle"
    /\ UNCHANGED <<history, history_file, clipboard, rec, mainq, outcomes,
                   backend_calls, whisper_loads>>

(***************************************************************************)
(* Speech2ClipGUI.record_audio (gui_main_qt.py 801-845), the capture       *)
(* worker of session w.                                                    *)
(***************************************************************************)
\* lines 804-822: device detection and pa.open
record_audio_open(w) ==
    /\ mode = "gui"
    /\ UNCHANGED <<envVars, libVars, cli, ar>>
    /\ cap[w].pc = "open"
    /\ \/ \* both devices found and the stream opens
          /\ cap' = [cap EXCEPT ![w].pc = "test", ![w].stream = "open"]
          /\ UNCHANGED mainq
       \/ \* get_default_input/output_device_info raises: message, return
          /\ cap' = [cap EXCEPT ![w].pc = "aborted"]
          /\ mainq' = Append(mainq, Event("msg", w, ""))
       \/ \* pa.open raises: the exception ends the thread
          /\ cap' = [cap EXCEPT ![w] = thread_ended("dead", @.stream)]
          /\ UNCHANGED mainq
    /\ UNCHANGED <<is_recording, audio_frames, history, history_file,
                   clipboard, rec, nstarted, hk, outcomes,
                   backend_calls, whisper_loads>>

\* line 827: while self.is_recording
record_audio_test(w) ==
    /\ mode = "gui"
    /\ UNCHANGED <<envVars, libVars, cli, ar>>
    /\ cap[w].pc = "test"
    /\ cap' = [cap EXCEPT ![w].pc = IF is_recording THEN "read" ELSE "finish"]
    /\ UNCHANGED <<is_recording, audio_frames, history, history_file,
                   clipboard, rec, nstarted, mainq, hk, outcomes,
                   backend_calls, whisper_loads>>

\* line 833-836: the silence counter after a chunk of loudness lvl
gui_silence_count(count, lvl) ==
    IF lvl < Threshold THEN count + 1 ELSE 0

\* lines 837-840: the two break conditions, after n chunks
gui_break(count, n) ==
    count > GuiSilenceChunks \/ n >= GuiMaxChunks

\* lines 828-840: one iteration of the loop body
record_audio_read(w) ==
    /\ mode = "gui"
    /\ UNCHANGED <<envVars, libVars, cli, ar>>
    /\ cap[w].pc = "read"
    /\ \/ \* stream.read raises: the exception ends the thread
          /\ cap' = [cap EXCEPT ![w] = thread_ended("dead", @.stream)]
          /\ UNCHANGED audio_frames
       \/ \E lvl \in GuiLevels :
            LET c == gui_silence_count(cap[w].silence_count, lvl)
                k == cap[w].n + 1
            IN /\ audio_frames' = [audio_frames EXCEPT ![w] = @ + 1]
               /\ cap' = [cap EXCEPT ![w].silence_count = c,
                                     ![w].n = k,
                                     ![w].level = lvl,
                                     ![w].pc = IF gui_break(c, k)
                                               THEN "finish" ELSE "test"]
    /\ UNCHANGED <<is_recording, history, history_file, clipboard, rec,
                   nstarted, mainq, hk, outcomes,
                   backend_calls, whisper_loads>>

\* lines 841-845: after the loop
record_audio_finish(w) ==
    /\ mode = "gui"
    /\ UNCHANGED <<envVars, libVars, cli, ar>>
    /\ cap[w].pc = "finish"
    /\ is_recording' = FALSE
    /\ cap' = [cap EXCEPT ![w] = thread_ended("done", "closed")]
    /\ mainq' = Append(mainq, Event("finish", w, ""))
    /\ UNCHANGED <<audio_frames, history, history_file, clipboard, rec,
                   nstarted, hk, outcomes,
                   backend_calls, whisper_loads>>

(***************************************************************************)
(* Handlers the Qt main thread runs for the event at the head of its queue.*)
(***************************************************************************)
\* a QMessageBox queued by run_on_main is shown
show_message ==
    /\ mode = "gui"
    /\ UNCHANGED <<envVars, libVars, cli, ar>>
    /\ mainq # <<>>
    /\ Head(mainq).type = "msg"
    /\ outcomes' = [outcomes EXCEPT ![Head(mainq).sess] = @ + 1]
    /\ mainq' = Tail(mainq)
    /\ UNCHANGED <<is_recording, audio_frames, history, history_file,
                   clipboard, cap, rec, nstarted, hk,
                   backend_calls, whisper_loads>>

\* on_record_finish without the test of lines 850-853
on_record_finish_unchecked ==
    /\ mode = "gui"
    /\ UNCHANGED <<envVars, libVars, cli, ar>>
    /\ mainq # <<>>
    /\ Head(mainq).type = "finish"
    /\ mainq' = Tail(mainq)
    /\ rec' = [rec EXCEPT ![Head(mainq).sess] = [pc |-> "run", text |-> ""]]
    /\ UNCHANGED <<is_recording, audio_frames, history, history_file,
                   clipboard, cap, nstarted, hk, outcomes,
                   backend_calls, whisper_loads>>

\* Speech2ClipGUI.on_record_finish (gui_main_qt.py 846-864)
on_record_finish ==
    /\ mode = "gui"
    /\ UNCHANGED <<envVars, libVars, cli, ar>>
    /\ mainq # <<>>
    /\ Head(mainq).type = "finish"
    /\ LET w == Head(mainq).sess
       IN IF audio_frames = NoFrames
          THEN /\ mainq' = Append(Tail(mainq), Event("msg", w, ""))
               /\ UNCHANGED rec
          ELSE /\ mainq' = Tail(mainq)
               /\ rec' = [rec EXCEPT ![w] = [pc |-> "run", text |-> ""]]
    /\ UNCHANGED <<is_recording, audio_frames, history, history_file,
                   clipboard, cap, nstarted, hk, outcomes,
                   backend_calls, whisper_loads>>

\* lines 870-874 with speech_recognizer.py 172-177: do_recognition makes a
\* new SpeechRecognizer, whose _whisper_model is None, so a call that
\* reaches _recognize_whisper's import loads the model
whisper_loads_after(reached) ==
    IF reached THEN whisper_loads + 1 ELSE whisper_loads

\* Speech2ClipGUI.do_recognition (gui_main_qt.py 865-883), the recognition
\* worker of session w.  recognize_from_file returns a text, or None on any
\* failure; emit(None) on a pyqtSignal(str) raises, which the except branch
\* turns into the queued lambda of line 883.
do_recognition(w) ==
    /\ mode = "gui"
    /\ UNCHANGED <<envVars, libVars, cli, ar>>
    /\ rec[w].pc = "run"
    /\ backend_calls' = [backend_calls EXCEPT ![w] = @ + 1]
    /\ \/ \E t \in BackendTexts :
            /\ rec' = [rec EXCEPT ![w] = [pc |-> "ok", text |-> t]]
            /\ mainq' = Append(mainq, Event("after", w, to_simplified(t)))
            /\ whisper_loads' = whisper_loads_after(TRUE)
       \/ \E reached \in BOOLEAN :
            /\ rec' = [rec EXCEPT ![w] = [pc |-> "failed", text |-> ""]]
            /\ mainq' = Append(mainq, Event("fail", w, ErrText))
            /\ whisper_loads' = whisper_loads_after(reached)
    /\ UNCHANGED <<is_recording, audio_frames, history, history_file,
                   clipboard, cap, nstarted, hk, outcomes>>

\* save_history writing the entries newest first, the order the list shows
save_history_reversed(h) ==
    [fmt |-> "dict",
     entries |-> [i \in 1..Len(h) |->
                    [text |-> h[Len(h) + 1 - i],
                     source |-> "speech_recognition"]]]

\* Speech2ClipGUI.save_history (gui_main_qt.py 1221-1247): the content of
\* the file after a successful save of the history h, one entry per text
\* (the id and the timestamp of an entry are never read back)
save_history(h) ==
    [fmt |-> "dict",
     entries |-> [i \in 1..Len(h) |->
                    [text |-> h[i], source |-> "speech_recognition"]]]

\* a file that json.load cannot parse
CorruptFile == [fmt |-> "corrupt", entries |-> <<>>]

\* no file at the path
MissingFile == [fmt |-> "missing", entries |-> <<>>]

\* Speech2ClipGUI.save_history (gui_main_qt.py 1221-1251) with its except
\* branch: the file after the call is the saved history, or what it was
\* when the file cannot be opened for writing
save_history_outcomes(file, h) ==
    {save_history(h), file}

\* the append of line 953 without the cut of lines 954-955
history_append_untrimmed(h, text) ==
    Append(h, text)

\* the text put at the oldest end, the first max_history entries kept
history_prepend(h, text) ==
    LET h1 == <<text>> \o h
    IN IF Len(h1) > MaxHistory
       THEN SubSeq(h1, 1, MaxHistory)
       ELSE h1

\* lines 953-955: append, then keep the last max_history entries
history_append(h, text) ==
    LET h1 == Append(h, text)
    IN IF Len(h1) > MaxHistory
       THEN SubSeq(h1, Len(h1) - MaxHistory + 1, Len(h1))
       ELSE h1

\* after_recognition saving first and giving up when the save fails
deliver_unless_save_fails(w, text_simp) ==
    LET text == to_simplified(text_simp)
    IN /\ history_file' \in save_history_outcomes(history_file,
                                                   history_append(history, text))
       /\ IF history_file' = save_history(history_append(history, text))
          THEN /\ outcomes' = [outcomes EXCEPT ![w] = @ + 1]
               /\ clipboard' = IF clipboard_ok THEN text ELSE clipboard
               /\ history' = history_append(history, text)
          ELSE UNCHANGED <<outcomes, clipboard, history>>

\* Speech2ClipGUI.after_recognition (gui_main_qt.py 942-963) for session w:
\* the result is shown, the clipboard write queued at 948 runs in the
\* processEvents of 961, the history is appended and saved (save_history
\* swallows a failing write).
deliver(w, text_simp) ==
    LET text == to_simplified(text_simp)
    IN /\ outcomes' = [outcomes EXCEPT ![w] = @ + 1]
       /\ clipboard' = IF clipboard_ok THEN text ELSE clipboard
       /\ history' = history_append(history, text)
       /\ history_file' \in save_history_outcomes(history_file,
                                                   history_append(history, text))

\* recognitionFinished reaches the main thread from do_recognition's try
after_recognition ==
    /\ mode = "gui"
    /\ UNCHANGED <<envVars, libVars, cli, ar>>
    /\ mainq # <<>>
    /\ Head(mainq).type = "after"
    /\ deliver(Head(mainq).sess, Head(mainq).text)
    /\ mainq' = Tail(mainq)
    /\ UNCHANGED <<is_recording, audio_frames, cap, rec, nstarted, hk,
                   backend_calls, whisper_loads>>

\* the lambda of line 883 runs on the main thread.  It reads `e`, which
\* Python unbinds when the except block ends: it raises NameError (nothing
\* is delivered) unless it runs before the worker leaves the block, and
\* then it emits '[识别失败] ...' into after_recognition.
failure_lambda ==
    /\ mode = "gui"
    /\ UNCHANGED <<envVars, libVars, cli, ar>>
    /\ mainq # <<>>
    /\ Head(mainq).type = "fail"
    /\ \/ UNCHANGED <<outcomes, clipboard, history, history_file>>
       \/ deliver(Head(mainq).sess, Head(mainq).text)
    /\ mainq' = Tail(mainq)
    /\ UNCHANGED <<is_recording, audio_frames, cap, rec, nstarted, hk,
                   backend_calls, whisper_loads>>

\* data[-self.max_history:] of lines 1202 and 1206
\* the first max_history items kept in place of the last
first_items(q) ==
    IF Len(q) > MaxHistory THEN SubSeq(q, 1, MaxHistory) ELSE q

last_max_history(q) ==
    IF Len(q) > MaxHistory
    THEN SubSeq(q, Len(q) - MaxHistory + 1, Len(q))
    ELSE q

\* a JSON array, the old format of the file: its items, strings or not
legacy_file(items) == [fmt |-> "list", entries |-> items]

\* a JSON object without 'entries', or a JSON number, string or null
OtherJsonFile == [fmt |-> "other", entries |-> <<>>]

\* a JSON object whose 'entries' is not a list of objects: slicing it or
\* entry.get raises, and the except clause leaves the empty history
BadEntriesFile == [fmt |-> "bad_entries", entries |-> <<>>]

\* an item of a JSON array that is not a string (a number), as it prints
NonStrings == {"<7>"}

\* Speech2ClipGUI.load_history (gui_main_qt.py 1192-1219): the last
\* max_history items of a list; the texts of the last max_history entries
\* of a dict with 'entries'; the empty history for every other content,
\* for a missing file and for a file that cannot be read or parsed
load_history(file) ==
    IF file.fmt = "list"
    THEN last_max_history(file.entries)
    ELSE IF file.fmt = "dict"
    THEN LET entries == last_max_history(file.entries)
         IN [i \in 1..Len(entries) |-> entries[i].text]
    ELSE <<>>

\* the history file the GUI finds when it starts
InitFiles == {save_history(<<"h1">>)}

(***************************************************************************)
(* The history handlers of the GUI main thread on their own: the sessions  *)
(* are reduced to what reaches the history, the recognitionFinished        *)
(* signal with its text.                                                   *)
(***************************************************************************)
\* the variables of the recording sessions, which the history handlers
\* leave alone
sessionVars == <<is_recording, audio_frames, cap, rec, nstarted, hk,
                 backend_calls, whisper_loads>>

\* texts of the entries of the history files found at start
HistTexts == <<"h1", "h2", "h3", "h4">>

\* history files found at start: none, an unreadable one, a short one and
\* one with more than max_history entries; files of the old format, of
\* strings or not; files of no known format
HistInitFiles ==
    {MissingFile, CorruptFile, save_history(<<"h1">>),
     save_history(SubSeq(HistTexts, 1, MaxHistory + 1)),
     legacy_file(<<"h1">>),
     legacy_file(SubSeq(HistTexts, 1, MaxHistory + 1)),
     legacy_file(<<"h1", "<7>">>),
     OtherJsonFile, BadEntriesFile}

\* line 878: a session ends with recognitionFinished.emit(text_simp)
recognitionFinished_emit ==
    /\ mode = "gui"
    /\ UNCHANGED <<envVars, libVars, cli, ar>>
    /\ outcomes[1] + Len(mainq) < MaxDeliveries
    /\ \E t \in BackendTexts :
          mainq' = Append(mainq, Event("after", 1, to_simplified(t)))
    /\ UNCHANGED <<sessionVars, history, history_file, clipboard, outcomes>>

\* line 131 of __init__: self.load_history()
init_load_history ==
    /\ mode = "gui"
    /\ UNCHANGED <<envVars, libVars, cli, ar>>
    /\ history' = load_history(history_file)
    /\ UNCHANGED <<sessionVars, mainq, history_file, clipboard, outcomes>>

\* Speech2ClipGUI.clear_history_session (gui_main_qt.py 964-969)
clear_history_session ==
    /\ mode = "gui"
    /\ UNCHANGED <<envVars, libVars, cli, ar>>
    /\ history' = <<>>
    /\ history_file' \in save_history_outcomes(history_file, <<>>)
    /\ UNCHANGED <<sessionVars, mainq, clipboard, outcomes>>

(***************************************************************************)
(* cli_demo.custom_record_with_silence_detection (cli_demo.py 34-75).      *)
(* A chunk is known by its loudness (the rms the loop computes for it).    *)
(***************************************************************************)
\* line 45: p.open
cli_open ==
    /\ mode = "cli"
    /\ UNCHANGED <<envVars, libVars, guiVars, ar>>
    /\ cli.pc = "start"
    /\ \/ cli' = [cli EXCEPT !.pc = "loop", !.stream = "open",
                             !.format = Format(RATE, SampleWidth)]
       \/ \* p.open raises: the exception leaves the function
          cli' = [cli EXCEPT !.pc = "error"]

\* line 56: rms < threshold, which is False when rms is not a number
rms_below(rms, threshold) ==
    rms # NaN /\ rms < threshold

\* the loop with the test rms <= threshold in the place of line 56's
cli_silent_chunks_le(count, rms) ==
    IF rms # NaN /\ rms <= Threshold THEN count + 1 ELSE 0

\* lines 54-57: the silence counter after a chunk of loudness rms
cli_silent_chunks(count, rms) ==
    IF rms_below(rms, Threshold) THEN count + 1 ELSE 0

\* line 58 and the end of range(max_chunks): the loop is left after i chunks
cli_break(count, i) ==
    count >= CliSilenceLimit \/ i >= CliMaxChunks

\* lines 50-60: one iteration of the for loop
cli_read ==
    /\ mode = "cli"
    /\ UNCHANGED <<envVars, libVars, guiVars, ar>>
    /\ cli.pc = "loop"
    /\ \/ \* stream.read raises: the exception leaves the function
          cli' = [cli EXCEPT !.pc = "error"]
       \/ \E rms \in CliLevels :
            LET c == cli_silent_chunks(cli.silent_chunks, rms)
                k == cli.i + 1
            IN cli' = [cli EXCEPT !.frames = Append(@, rms),
                                  !.silent_chunks = c,
                                  !.i = k,
                                  !.pc = IF cli_break(c, k)
                                         THEN "close" ELSE "loop"]

\* lines 61-75: the stream is closed and the frames are returned
cli_close ==
    /\ mode = "cli"
    /\ UNCHANGED <<envVars, libVars, guiVars, ar>>
    /\ cli.pc = "close"
    /\ cli' = [cli EXCEPT !.pc = "returned", !.stream = "closed"]

\* the format SpeechRecognizer.recognize_from_audio_data declares for the
\* bytes it is given (speech_recognizer.py 96)
AudioData_format == Format(AudioDataRate, AudioDataWidth)

\* cli_demo.main (cli_demo.py 134-136): the bytes the capture returned go to
\* recognizer.recognize_from_audio_data
cli_recognize ==
    /\ mode = "cli"
    /\ UNCHANGED <<envVars, libVars, guiVars, ar>>
    /\ cli.pc = "returned"
    /\ cli' = [cli EXCEPT !.pc = "recognized", !.declared = AudioData_format]

(***************************************************************************)
(* AudioRecorder (audio_recorder.py).  ar.tick flips at every call of      *)
(* start_recording or stop_recording; ar.op and ar.ret are the last call   *)
(* and what it returned.                                                   *)
(***************************************************************************)
\* start_recording without the test of lines 89-91
start_recording_unguarded ==
    /\ mode = "recorder"
    /\ UNCHANGED <<envVars, libVars, guiVars, cli>>
    /\ ar.caller = "idle"
    /\ \/ /\ ar.threads < budget
          /\ ar' = [ar EXCEPT !.frames = 0, !.stream = "open",
                              !.is_recording = TRUE, !.thread = "test",
                              !.threads = @ + 1, !.start_cb = @ + 1,
                              !.op = "start", !.ret = "True",
                              !.tick = 1 - @]
       \/ ar' = [ar EXCEPT !.frames = 0, !.op = "start",
                           !.ret = "False", !.tick = 1 - @]

\* AudioRecorder.start_recording (audio_recorder.py 87-116)
start_recording ==
    /\ mode = "recorder"
    /\ UNCHANGED <<envVars, libVars, guiVars, cli>>
    /\ ar.caller = "idle"
    /\ IF ar.is_recording
       THEN ar' = [ar EXCEPT !.op = "start", !.ret = "False", !.tick = 1 - @]
       ELSE \/ /\ ar.threads < budget
               /\ ar' = [ar EXCEPT !.frames = 0, !.stream = "open",
                                   !.is_recording = TRUE, !.thread = "test",
                                   !.threads = @ + 1, !.start_cb = @ + 1,
                                   !.op = "start", !.ret = "True",
                                   !.tick = 1 - @]
            \/ \* self.audio.open raises: on_error, return False
               ar' = [ar EXCEPT !.frames = 0, !.op = "start",
                                !.ret = "False", !.tick = 1 - @]

\* AudioRecorder.stop_recording (audio_recorder.py 118-127): the flag is
\* cleared and the caller joins the recording thread
stop_recording ==
    /\ mode = "recorder"
    /\ UNCHANGED <<envVars, libVars, guiVars, cli>>
    /\ ar.caller = "idle"
    /\ IF ~ar.is_recording
       THEN ar' = [ar EXCEPT !.op = "stop", !.ret = "None", !.tick = 1 - @]
       ELSE ar' = [ar EXCEPT !.is_recording = FALSE, !.caller = "joining",
                             !.op = "stop", !.ret = "none", !.tick = 1 - @]

\* AudioRecorder.stop_recording (audio_recorder.py 129-141): the join has
\* returned (the thread ended, or 2 s passed with the thread in a read)
stop_recording_return ==
    /\ mode = "recorder"
    /\ UNCHANGED <<envVars, libVars, guiVars, cli>>
    /\ ar.caller = "joining"
    /\ ar' = [ar EXCEPT !.stream = "none", !.caller = "idle",
                        !.ret = IF ar.frames > 0 THEN "bytes" ELSE "None"]

\* AudioRecorder._record_audio (audio_recorder.py 146): the loop condition
AR_record_audio_test ==
    /\ mode = "recorder"
    /\ UNCHANGED <<envVars, libVars, guiVars, cli>>
    /\ ar.thread = "test"
    /\ ar' = [ar EXCEPT !.thread = IF ar.is_recording /\ ar.stream # "none"
                                   THEN "read" ELSE "exited"]

\* AudioRecorder._record_audio (audio_recorder.py 147, 149-151):
\* data = self.stream.read(...)
AR_record_audio_read ==
    /\ mode = "recorder"
    /\ UNCHANGED <<envVars, libVars, guiVars, cli>>
    /\ ar.thread = "read"
    /\ \/ /\ ar.stream = "open"
          /\ ar.frames < MaxArChunks
          /\ ar' = [ar EXCEPT !.thread = "append"]
       \/ \* the read raises (always when the stream is gone): on_error
          ar' = [ar EXCEPT !.thread = "dead"]

\* AudioRecorder._record_audio (audio_recorder.py 148):
\* self.frames.append(data)
AR_record_audio_append ==
    /\ mode = "recorder"
    /\ UNCHANGED <<envVars, libVars, guiVars, cli>>
    /\ ar.thread = "append"
    /\ ar' = [ar EXCEPT !.frames = @ + 1, !.thread = "test"]

(***************************************************************************)
(* SpeechRecognizer (speech_recognizer.py).  An exception is a value: a    *)
(* function returns Ret(text, confidence) or Raise(exception).  A          *)
(* confidence is a fraction num/den.                                       *)
(***************************************************************************)
Frac(n, d) == [num |-> n, den |-> d]
FracEq(a, b) == a.num * b.den = b.num * a.den

\* the text None
NoneText == "<None>"

Ret(text, confidence) ==
    [exc |-> "none", text |-> text, confidence |-> confidence]
Raise(e) == [exc |-> e, text |-> NoneText, confidence |-> Frac(0, 1)]

\* the `return None, 0.0` of the except branches
NoneRet == Ret(NoneText, Frac(0, 1))

\* str.strip() of line 189, on the raw texts of the model
strip(raw) == IF raw = " t " THEN "t" ELSE ""
RawTexts == {"", " ", " t "}

\* a segment of a Whisper result: a score k stands for the confidence
\* k/ScoreDen; a segment may come without the key 'confidence'
Segments1 ==
    {[has_confidence |-> FALSE, confidence |-> 0]}
      \cup {[has_confidence |-> TRUE, confidence |-> k] : k \in 0..ScoreDen}

RECURSIVE SegmentLists(_)
SegmentLists(n) ==
    IF n = 0 THEN {<<>>}
    ELSE SegmentLists(n - 1)
           \cup {Append(q, g) : q \in {x \in SegmentLists(n - 1) :
                                           Len(x) = n - 1},
                                g \in Segments1}

\* sum(...) of line 196
RECURSIVE sum(_)
sum(q) == IF q = <<>> THEN 0 ELSE Head(q) + sum(Tail(q))

has_confidence(seg) == seg.has_confidence

\* the fixed default 0.8 of lines 196 and 198
DefaultConfidence == Frac(4, 5)

\* the average taken over all the segments, a segment without the key
\* counting 0.0
avg_confidence_all_segments(segments) ==
    IF segments # <<>>
    THEN Frac(sum([i \in 1..Len(segments) |->
                     IF segments[i].has_confidence
                     THEN segments[i].confidence ELSE 0]),
              Len(segments) * ScoreDen)
    ELSE DefaultConfidence

\* lines 191-198: avg_confidence
avg_confidence(segments) ==
    IF segments # <<>>
    THEN LET withkey == SelectSeq(segments, has_confidence)
             confidences == [i \in 1..Len(withkey) |-> withkey[i].confidence]
         IN IF confidences # <<>>
            THEN Frac(sum(confidences), Len(confidences) * ScoreDen)
            ELSE DefaultConfidence
    ELSE DefaultConfidence

\* what the Google service does with one request
GoogleOutcomes(input) ==
    {"UnknownValueError", "RequestError", "Exception"}
      \cup (IF input = "speech" THEN {"text"} ELSE {})

\* SpeechRecognizer._recognize_google (speech_recognizer.py 159-167)
recognize_google(g) ==
    IF g = "text" THEN Ret("t", Frac(17, 20)) ELSE Raise(g)

\* what the whisper package does with one request: where it fails if it
\* does, the text and the segments of its result.  It finds no words in
\* audio without samples.
WhisperOutcomes(input) ==
    [stage : {"ImportError", "load_model", "transcribe"},
     text : {""}, segments : {<<>>}]
      \cup [stage : {"ok"},
            text : IF input = "speech" THEN RawTexts ELSE RawTexts \ {" t "},
            segments : SegmentLists(MaxSegments)]

\* SpeechRecognizer._recognize_whisper (speech_recognizer.py 169-215); the
\* model is loaded when self._whisper_model is None
recognize_whisper(whisper_model, w) ==
    IF whisper_model = "None" /\ w.stage \in {"ImportError", "load_model"}
    THEN NoneRet
    ELSE IF w.stage = "ok"
         THEN Ret(strip(w.text), avg_confidence(w.segments))
         ELSE NoneRet

\* self._whisper_model after _recognize_whisper
whisper_model_after(whisper_model, w) ==
    IF whisper_model = "None" /\ w.stage \in {"ImportError", "load_model"}
    THEN "None" ELSE "loaded"

Engines == {"GOOGLE", "WHISPER", "BING"}

\* SpeechRecognizer._recognize_audio (speech_recognizer.py 135-157)
recognize_audio(engine, whisper_model, g, w) ==
    LET r == IF engine = "GOOGLE" THEN recognize_google(g)
             ELSE IF engine = "WHISPER"
                  THEN recognize_whisper(whisper_model, w)
                  ELSE NoneRet
    IN IF r.exc # "none" THEN NoneRet ELSE r

\* recognize_from_file without its try
recognize_from_file_untried(input, engine, whisper_model, g, w) ==
    IF input = "unreadable" THEN Raise("Exception")
    ELSE recognize_audio(engine, whisper_model, g, w)

\* SpeechRecognizer.recognize_from_file (speech_recognizer.py 102-111):
\* sr.AudioFile raises on a path that is no readable audio file
recognize_from_file(input, engine, whisper_model, g, w) ==
    IF input = "unreadable" THEN NoneRet
    ELSE LET r == recognize_audio(engine, whisper_model, g, w)
         IN IF r.exc # "none" THEN NoneRet ELSE r

\* SpeechRecognizer.recognize_from_audio_data (speech_recognizer.py
\* 91-100): sr.AudioData raises on data that is no bytes
recognize_from_audio_data(input, engine, whisper_model, g, w) ==
    IF input = "unreadable" THEN NoneRet
    ELSE LET r == recognize_audio(engine, whisper_model, g, w)
         IN IF r.exc # "none" THEN NoneRet ELSE r

\* what the engine in use does with one request (the other engine is not
\* asked)
EngineOutcomes(engine, input) ==
    IF engine = "GOOGLE"
    THEN {[g |-> x, w |-> [stage |-> "ok", text |-> "", segments |-> <<>>]] :
            x \in GoogleOutcomes(input)}
    ELSE IF engine = "WHISPER"
         THEN {[g |-> "text", w |-> x] : x \in WhisperOutcomes(input)}
         ELSE {[g |-> "text",
                w |-> [stage |-> "ok", text |-> "", segments |-> <<>>]]}

\* what a caller passes: audio without samples, audio of speech, or
\* something that is no audio (no bytes, no readable file)
AudioInputs == {"empty", "speech", "unreadable"}

NoCall == [fn |-> "none", input |-> "none", engine |-> "none",
           segments |-> <<>>, stage |-> "none", ret |-> NoneRet]
NoSr == [current_engine |-> "GOOGLE", whisper_model |-> "None",
         last |-> NoCall]

\* SpeechRecognizer.set_engine (speech_recognizer.py 62-69)
set_engine ==
    /\ mode = "recognizer"
    /\ UNCHANGED <<envVars, guiVars, cli, ar, cm, cfg>>
    /\ \E engine \in Engines :
          sr' = [sr EXCEPT !.current_engine = engine]

\* the state of the recognizer after a call, fn being the entry point
sr_after_call(fn, input, g, w) ==
    LET uses_whisper == input # "unreadable" /\ sr.current_engine = "WHISPER"
        ret == IF fn = "recognize_from_file"
               THEN recognize_from_file(input, sr.current_engine,
                                        sr.whisper_model, g, w)
               ELSE recognize_from_audio_data(input, sr.current_engine,
                                              sr.whisper_model, g, w)
    IN [sr EXCEPT
          !.whisper_model = IF uses_whisper
                            THEN whisper_model_after(@, w) ELSE @,
          !.last = [fn |-> fn, input |-> input,
                    engine |-> sr.current_engine,
                    segments |-> IF uses_whisper THEN w.segments ELSE <<>>,
                    stage |-> IF uses_whisper THEN w.stage ELSE "none",
                    ret |-> ret]]

\* a caller calls recognize_from_audio_data
call_recognize_from_audio_data ==
    /\ mode = "recognizer"
    /\ UNCHANGED <<envVars, guiVars, cli, ar, cm, cfg>>
    /\ \E input \in AudioInputs :
         \E e \in EngineOutcomes(sr.current_engine, input) :
            sr' = sr_after_call("recognize_from_audio_data", input, e.g, e.w)

\* a caller calls recognize_from_file
call_recognize_from_file ==
    /\ mode = "recognizer"
    /\ UNCHANGED <<envVars, guiVars, cli, ar, cm, cfg>>
    /\ \E input \in AudioInputs :
         \E e \in EngineOutcomes(sr.current_engine, input) :
            sr' = sr_after_call("recognize_from_file", input, e.g, e.w)

(***************************************************************************)
(* The loudness of a chunk, as the two capture loops compute it from       *)
(* audio_np = np.frombuffer(data, dtype=np.int16).  The arithmetic on      *)
(* audio_np is int16 arithmetic, which wraps around; np.mean is computed   *)
(* in float64.  A float is kept as the fraction num/den it is the value    *)
(* of, and the root of the CLI's rms is left untaken: rms2 is rms * rms,   *)
(* and rms is not a number when rms2 is negative.                          *)
(***************************************************************************)
\* samples in a chunk (1024 in the source), scaled down
ChunkLen == 2

\* full scale of a 16-bit sample
FullScale == 32768

\* an int16 result: the value modulo 2^16, in -32768..32767
wrap16(v) == ((v + FullScale) % (2 * FullScale)) - FullScale

\* np.abs on an int16 array
abs16(x) == wrap16(IF x < 0 THEN 0 - x ELSE x)

\* audio_np ** 2 on an int16 array
square16(x) == wrap16(x * x)

\* the int16 samples of the chunks
Samples == {0 - 32768, 0 - 200, 0, 2, 100, 182, 16384}

Chunks == UNION {[1..n -> Samples] : n \in 1..ChunkLen}

RECURSIVE SumOver(_, _, _)
\* the sum of f[x] over the first k samples of a chunk
SumOver(f, audio_np, k) ==
    IF k = 0 THEN 0 ELSE f[audio_np[k]] + SumOver(f, audio_np, k - 1)

\* cli_demo.py 53: np.mean(audio_np ** 2), the square of rms
mean_square16(audio_np) ==
    [num |-> SumOver([x \in Samples |-> square16(x)], audio_np, Len(audio_np)),
     den |-> Len(audio_np)]

\* gui_main_qt.py 831: np.abs(audio_np).mean() / 32768
mean_abs16(audio_np) ==
    [num |-> SumOver([x \in Samples |-> abs16(x)], audio_np, Len(audio_np)),
     den |-> Len(audio_np) * FullScale]

NoMetric == [num |-> 0, den |-> 1]

\* the variables the loudness computations leave alone
loudnessFrame == <<mode, budget, opencc_ok, clipboard_ok, is_recording,
                   audio_frames, history, history_file, clipboard, rec,
                   nstarted, mainq, hk, outcomes, backend_calls,
                   whisper_loads, ar, sr, cm, cfg>>

\* cli_demo.py 52-53: audio_np and rms of one chunk
cli_rms ==
    /\ mode = "loudness"
    /\ cli.pc = "data"
    /\ cli' = [cli EXCEPT !.pc = "rms", !.rms2 = mean_square16(cli.audio_np)]
    /\ UNCHANGED <<cap, loudnessFrame>>

\* gui_main_qt.py 830-831: audio_np and level of one chunk
gui_level ==
    /\ mode = "loudness"
    /\ cap[1].pc = "data"
    /\ cap' = [cap EXCEPT ![1].pc = "level",
                          ![1].level = mean_abs16(cap[1].audio_np)]
    /\ UNCHANGED <<cli, loudnessFrame>>

(***************************************************************************)
(* ClipboardManager (clipboard_manager.py).  The caller's thread runs      *)
(* copy_text and clear_history; start_monitoring starts the daemon thread  *)
(* _monitor_clipboard, which shares self.history with the caller without   *)
(* a lock.  The system clipboard is the variable clipboard, and            *)
(* pyperclip works when clipboard_ok.  The interpreter may switch threads   *)
(* between two statements, so the statements of _add_to_history are steps  *)
(* of their own.                                                           *)
(***************************************************************************)
\* no ClipboardManager has been constructed
NoCm == [pc |-> "off"]

\* max_history of the constructor (100, 20 and 10 in the source), scaled down
CmMaxHistory == 2
\* calls of copy_text made in one run
MaxCopies == 3

\* the texts handed to copy_text
CmTexts == {"a", "b"}

\* history[-max_history:], the slice that keeps the other end
last_entries(h, max_history) ==
    IF Len(h) > max_history
    THEN SubSeq(h, Len(h) - max_history + 1, Len(h)) ELSE h

\* history[:max_history]
first_max_history(h, max_history) ==
    IF Len(h) > max_history THEN SubSeq(h, 1, max_history) ELSE h

\* ClipboardManager.save_history: the file holds the contents of the
\* entries, or what it held before when the write fails
cm_save_history(c) == {[c EXCEPT !.file = c.history], c}

\* the statements of _add_to_history
AddStages == {"check", "insert", "trim", "save"}

\* one statement of ClipboardManager._add_to_history(entry), entry.content =
\* content, run by the thread whose position is the field thread of c (pc
\* for the caller of copy_text, mon for _monitor_clipboard); done is the
\* position after the call
add_to_history(c, thread, content, done) ==
    CASE c[thread] = "check" ->
           IF c.history # <<>> /\ c.history[1] = content
           THEN {[c EXCEPT ![thread] = done]}
           ELSE {[c EXCEPT ![thread] = "insert"]}
      [] c[thread] = "insert" ->
           {[c EXCEPT !.history = <<content>> \o @, ![thread] = "trim"]}
      [] c[thread] = "trim" ->
           {[c EXCEPT !.history = first_max_history(@, c.max_history),
                      ![thread] = IF c.auto_save THEN "save" ELSE done]}
      [] c[thread] = "save" ->
           {[c1 EXCEPT ![thread] = done] : c1 \in cm_save_history(c)}

\* the variables a ClipboardManager leaves alone
cmFrame == <<mode, budget, opencc_ok, clipboard_ok, is_recording,
             audio_frames, history, history_file, cap, rec, nstarted, mainq,
             hk, outcomes, backend_calls, whisper_loads, cli, ar, sr, cfg>>

\* copy_text(text), up to pyperclip.copy(text); when it raises, the except
\* clause returns False
copy_text_pyperclip ==
    /\ mode = "clipboard"
    /\ cm.pc = "idle"
    /\ cm.ncopy < MaxCopies
    /\ \E text \in CmTexts :
         IF clipboard_ok
         THEN /\ clipboard' = text
              /\ cm' = [cm EXCEPT !.pc = "check", !.text = text]
         ELSE /\ cm' = [cm EXCEPT !.ncopy = @ + 1,
                                  !.ret = [text |-> text, ok |-> FALSE]]
              /\ UNCHANGED clipboard
    /\ UNCHANGED cmFrame

\* copy_text: entry = ClipboardEntry(text, ...); self._add_to_history(entry)
copy_text_add ==
    /\ mode = "clipboard"
    /\ cm.pc \in AddStages
    /\ cm' \in add_to_history(cm, "pc", cm.text, "return")
    /\ UNCHANGED <<clipboard, cmFrame>>

\* copy_text: the on_copy_success callback, then return True; a callback
\* that raises makes the except clause return False
copy_text_return ==
    /\ mode = "clipboard"
    /\ cm.pc = "return"
    /\ \E ok \in BOOLEAN :
         cm' = [cm EXCEPT !.pc = "idle", !.ncopy = @ + 1,
                          !.ret = [text |-> cm.text, ok |-> ok]]
    /\ UNCHANGED <<clipboard, cmFrame>>

\* clear_history()
cm_clear_history ==
    /\ mode = "clipboard"
    /\ cm.pc = "idle"
    /\ cm.history # <<>>
    /\ LET c1 == [cm EXCEPT !.history = <<>>]
       IN cm' \in (IF cm.auto_save THEN cm_save_history(c1) ELSE {c1})
    /\ UNCHANGED <<clipboard, cmFrame>>

\* start_monitoring(): returns at once when already monitoring; the thread
\* of an earlier start_monitoring has ended (stop_monitoring joins it)
start_monitoring ==
    /\ mode = "clipboard"
    /\ cm.pc = "idle"
    /\ ~cm.monitoring
    /\ cm.mon = "off"
    /\ cm' = [cm EXCEPT !.monitoring = TRUE, !.mon = "init"]
    /\ UNCHANGED <<clipboard, cmFrame>>

\* stop_monitoring()
stop_monitoring ==
    /\ mode = "clipboard"
    /\ cm.pc = "idle"
    /\ cm.monitoring
    /\ cm' = [cm EXCEPT !.monitoring = FALSE]
    /\ UNCHANGED <<clipboard, cmFrame>>

\* pyperclip.paste(), "" standing for the exception when it raises
paste == IF clipboard_ok THEN clipboard ELSE ""

\* _monitor_clipboard: self.last_clipboard_content = pyperclip.paste(),
\* "" when it raises
monitor_clipboard_init ==
    /\ mode = "clipboard"
    /\ cm.mon = "init"
    /\ cm' = [cm EXCEPT !.mon = "poll", !.last_clipboard_content = paste]
    /\ UNCHANGED <<clipboard, cmFrame>>

\* _monitor_clipboard: while self.monitoring: current_content =
\* pyperclip.paste(); a paste that raises is printed and the loop sleeps
monitor_clipboard_paste ==
    /\ mode = "clipboard"
    /\ cm.mon = "poll"
    /\ cm' = IF ~cm.monitoring THEN [cm EXCEPT !.mon = "off"]
             ELSE IF ~clipboard_ok THEN cm
             ELSE [cm EXCEPT !.mon = "compare",
                             !.current_content = clipboard]
    /\ cm' # cm
    /\ UNCHANGED <<clipboard, cmFrame>>

\* _monitor_clipboard: the comparison with last_clipboard_content; an
\* unchanged or empty content goes to the sleep
monitor_clipboard_compare ==
    /\ mode = "clipboard"
    /\ cm.mon = "compare"
    /\ cm' = IF cm.current_content = cm.last_clipboard_content
             THEN [cm EXCEPT !.mon = "poll"]
             ELSE IF cm.current_content = ""
             THEN [cm EXCEPT !.mon = "poll",
                             !.last_clipboard_content = cm.current_content]
             ELSE [cm EXCEPT !.mon = "check"]
    /\ UNCHANGED <<clipboard, cmFrame>>

\* _monitor_clipboard: entry = ClipboardEntry(current_content, ...);
\* self._add_to_history(entry)
monitor_clipboard_add ==
    /\ mode = "clipboard"
    /\ cm.mon \in AddStages
    /\ cm' \in add_to_history(cm, "mon", cm.current_content, "seen")
    /\ UNCHANGED <<clipboard, cmFrame>>

\* _monitor_clipboard: the on_clipboard_change callback, then
\* self.last_clipboard_content = current_content and the sleep; a callback
\* that raises goes to the sleep of the except clause
monitor_clipboard_seen ==
    /\ mode = "clipboard"
    /\ cm.mon = "seen"
    /\ \E raised \in BOOLEAN :
         cm' = IF raised THEN [cm EXCEPT !.mon = "poll"]
               ELSE [cm EXCEPT !.mon = "poll",
                               !.last_clipboard_content = cm.current_content]
    /\ UNCHANGED <<clipboard, cmFrame>>

\* load_history(): a missing file, or one that cannot be read, leaves the
\* history alone; self.history = [the entries of the file]
cm_load_history ==
    /\ mode = "clipboard"
    /\ cm.pc = "idle"
    /\ \E readable \in BOOLEAN :
         cm' = IF readable
               THEN [cm EXCEPT !.pc = "load_trim", !.history = cm.file]
               ELSE cm
    /\ cm' # cm
    /\ UNCHANGED <<clipboard, cmFrame>>

\* load_history(): if len(self.history) > self.max_history:
\* self.history = self.history[:self.max_history]; return True
cm_load_history_trim ==
    /\ mode = "clipboard"
    /\ cm.pc = "load_trim"
    /\ cm' = [cm EXCEPT !.pc = "idle",
                        !.history = first_max_history(@, cm.max_history)]
    /\ UNCHANGED <<clipboard, cmFrame>>

\* the history without its i-th entry
without(h, i) == SubSeq(h, 1, i - 1) \o SubSeq(h, i + 1, Len(h))

\* delete_entry(entry_id) with the id of an entry of the history: the first
\* entry of that id goes; an id is made of the second of the entry and of
\* the hash of its content, so an earlier entry of the same content may
\* have the same id
cm_delete_entry ==
    /\ mode = "clipboard"
    /\ cm.pc = "idle"
    /\ \E i \in 1..Len(cm.history) :
         \E j \in {k \in 1..i : cm.history[k] = cm.history[i]} :
           LET c1 == [cm EXCEPT !.history = without(cm.history, j)]
           IN cm' \in (IF cm.auto_save THEN cm_save_history(c1) ELSE {c1})
    /\ UNCHANGED <<clipboard, cmFrame>>

\* get_history(), as the contents of the entries
get_history == cm.history

(***************************************************************************)
(* ConfigManager (config_manager.py): get and set over self.config.  A     *)
(* string is the sequence of its characters; a value is a tree, a function *)
(* from the key lists below its root to the nodes, <<>> being the root: a  *)
(* dict node has its items below it, every other node has nothing.         *)
(***************************************************************************)
\* no ConfigManager has been constructed
NoCfg == [pc |-> "off"]

\* characters of a key path handed to get and set
MaxPathLen == 3

PathChars == {"a", "."}

KeyPaths == UNION {[1..n -> PathChars] : n \in 0..MaxPathLen}

RECURSIVE split(_)
\* key_path.split('.')
split(key_path) ==
    IF \A i \in 1..Len(key_path) : key_path[i] # "."
    THEN <<key_path>>
    ELSE LET dot == CHOOSE i \in 1..Len(key_path) :
                        /\ key_path[i] = "."
                        /\ \A j \in 1..(i - 1) : key_path[j] # "."
         IN <<SubSeq(key_path, 1, dot - 1)>>
                \o split(SubSeq(key_path, dot + 1, Len(key_path)))

DictNode == [type |-> "dict", s |-> <<>>]
StrNode(s) == [type |-> "str", s |-> s]
IntNode == [type |-> "int", s |-> <<>>]
NoneNode == [type |-> "NoneType", s |-> <<>>]

\* a value that is not a dict; {}; the default of get
Scalar(node) == [q \in {<<>>} |-> node]
EmptyDict == Scalar(DictNode)
None == Scalar(NoneNode)

\* the values handed to set: "a", 10, {} and {"a": "a"}
CfgValues == {Scalar(StrNode(<<"a">>)), Scalar(IntNode), EmptyDict,
              [q \in {<<>>, <<<<"a">>>>} |->
                   IF q = <<>> THEN DictNode ELSE StrNode(<<"a">>)]}

IsPrefix(p, r) == Len(p) <= Len(r) /\ SubSeq(r, 1, Len(p)) = p

\* key in s, for a str s
IsSubstring(key, s) ==
    \E i \in 0..(Len(s) - Len(key)) : SubSeq(s, i + 1, i + Len(key)) = key

\* the value at p
value_at(config, p) ==
    LET below == {r \in DOMAIN config : IsPrefix(p, r)}
    IN [q \in {SubSeq(r, Len(p) + 1, Len(r)) : r \in below} |-> config[p \o q]]

\* current[key] = value, with p the key list of current followed by key
store(config, p, value) ==
    LET kept == {r \in DOMAIN config : ~IsPrefix(p, r)}
    IN [r \in kept \cup {p \o q : q \in DOMAIN value} |->
            IF IsPrefix(p, r) THEN value[SubSeq(r, Len(p) + 1, Len(r))]
            ELSE config[r]]

RECURSIVE get_from(_, _, _, _)
\* ConfigManager.get: the loop over keys, value being the value at p
get_from(config, p, keys, default) ==
    IF keys = <<>> THEN value_at(config, p)
    ELSE IF config[p].type = "dict" /\ (p \o <<Head(keys)>>) \in DOMAIN config
         THEN get_from(config, p \o <<Head(keys)>>, Tail(keys), default)
         ELSE default

\* a get that gives the default for every key below the first level
get_top_level(config, key_path) ==
    IF Len(split(key_path)) > 1 THEN None
    ELSE get_from(config, <<>>, split(key_path), None)

\* ConfigManager.get(key_path)
get(config, key_path) == get_from(config, <<>>, split(key_path), None)

RECURSIVE navigate(_, _, _)
\* ConfigManager.set: the loop over keys[:-1], current being the value at p.
\* On a dict a missing key is given {}.  Everything else raises TypeError,
\* which the except clause turns into False: a str raises at current[key] = {}
\* when key is not in it and at current[key] when it is, any other value
\* raises at `key not in current` or at current[key] = {}.
navigate(config, p, keys) ==
    IF keys = <<>> THEN [config |-> config, p |-> p, raised |-> FALSE]
    ELSE LET key == Head(keys)
             current == config[p]
         IN IF current.type = "dict"
            THEN navigate(IF (p \o <<key>>) \in DOMAIN config THEN config
                          ELSE store(config, p \o <<key>>, EmptyDict),
                          p \o <<key>>, Tail(keys))
            ELSE IF current.type = "str" /\ IsSubstring(key, current.s)
            THEN [config |-> config, p |-> p, raised |-> TRUE]
            ELSE [config |-> config, p |-> p, raised |-> TRUE]

\* ConfigManager.set up to current[keys[-1]] = value
set_value(config, key_path, value) ==
    LET keys == split(key_path)
        nav == navigate(config, <<>>, SubSeq(keys, 1, Len(keys) - 1))
    IN IF nav.raised \/ nav.config[nav.p].type # "dict"
       THEN [config |-> nav.config, raised |-> TRUE]
       ELSE [config |-> store(nav.config, nav.p \o <<keys[Len(keys)]>>, value),
             raised |-> FALSE]

\* default_config, scaled down: {"a": {"": "a", "a": 10}}, as
\* "speech": {"engine": "google", "timeout": 10}
default_config ==
    [q \in {<<>>, <<<<"a">>>>, <<<<"a">>, <<>>>>, <<<<"a">>, <<"a">>>>} |->
        IF q = <<>> \/ q = <<<<"a">>>> THEN DictNode
        ELSE IF q = <<<<"a">>, <<>>>> THEN StrNode(<<"a">>)
        ELSE IntNode]

\* ConfigManager._merge_configs(default, loaded): the items of loaded
\* replace those of default, two dicts under one key being merged
_merge_configs(default, loaded) ==
    LET kept == {p \in DOMAIN default :
                    \A i \in 1..Len(p) :
                        LET q == SubSeq(p, 1, i)
                        IN q \in DOMAIN loaded
                              => /\ loaded[q].type = "dict"
                                 /\ default[q].type = "dict"}
    IN [p \in kept \cup DOMAIN loaded |->
            IF p \in DOMAIN loaded THEN loaded[p] ELSE default[p]]

\* no config.json
NoConfigFile == [q \in {} |-> DictNode]

\* the key "last_saved", which no key path of KeyPaths names
last_saved == <<"l">>

\* what save_main_config writes: self.config with the time under "last_saved"
config_to_save(config) == store(config, <<last_saved>>, Scalar(StrNode(<<"t">>)))

\* the config.json files an earlier run left by one set that returned True
SavedFiles ==
    LET done == {set_value(default_config, key_path, value) :
                    key_path \in KeyPaths, value \in CfgValues}
    IN {config_to_save(r.config) : r \in {d \in done : ~d.raised}}

\* load_main_config: the defaults merged under the file, or the defaults
load_main_config(file) ==
    IF file = NoConfigFile THEN default_config
    ELSE _merge_configs(default_config, file)

NoSet == [key_path |-> <<>>, value |-> None, ret |-> FALSE]
NoGet == [key_path |-> <<>>, ret |-> None]

\* the variables a ConfigManager leaves alone
cfgFrame == <<mode, budget, opencc_ok, clipboard_ok, is_recording,
              audio_frames, history, history_file, clipboard, cap, rec,
              nstarted, mainq, hk, outcomes, backend_calls, whisper_loads,
              cli, ar, sr, cm>>

\* the keys of a dict whose values are dicts
dict_keys(config) ==
    {p[1] : p \in {q \in DOMAIN config : Len(q) = 1 /\ config[q].type = "dict"}}

\* self.config = self.default_config.copy() is a shallow copy: the dicts
\* under the keys of the result are the dicts of default_config themselves
copy_shared(default) == dict_keys(default)

\* _merge_configs starts from default.copy() and replaces the values of the
\* keys of loaded: the dicts under the other keys stay those of default
merge_shared(default, loaded) ==
    {key \in dict_keys(default) : <<key>> \notin DOMAIN loaded}

\* self.default_config after set(key_path, value) has made self.config of
\* config: a set that goes through a dict shared with default_config
\* changes that dict, for both
defaults_after_set(defaults, shared, key_path, config) ==
    LET keys == split(key_path)
    IN IF Len(keys) >= 2 /\ keys[1] \in shared
       THEN store(defaults, <<keys[1]>>, value_at(config, <<keys[1]>>))
       ELSE defaults

\* the shared dicts after set(key_path, value): self.config[key] = value
\* puts the caller's value in the place of the dict of default_config
shared_after_set(shared, key_path) ==
    LET keys == split(key_path)
    IN IF Len(keys) = 1 THEN shared \ {keys[1]} ELSE shared

\* set(key_path, value, auto_save): save_main_config writes config.json and
\* gives True, or gives False leaving the file as it was
cfg_set ==
    /\ mode = "config"
    /\ cfg.pc = "idle"
    /\ \E key_path \in KeyPaths, value \in CfgValues, auto_save \in BOOLEAN :
         LET r == set_value(cfg.config, key_path, value)
         IN \E saved \in (IF ~r.raised /\ auto_save THEN BOOLEAN ELSE {FALSE}) :
              cfg' = [pc |-> "set",
                      config |-> r.config,
                      defaults |-> defaults_after_set(cfg.defaults, cfg.shared,
                                                      key_path, r.config),
                      shared |-> shared_after_set(cfg.shared, key_path),
                      file |-> IF saved THEN config_to_save(r.config)
                               ELSE cfg.file,
                      last_set |-> [key_path |-> key_path, value |-> value,
                                    ret |-> IF r.raised THEN FALSE
                                            ELSE IF auto_save THEN saved
                                            ELSE TRUE],
                      last_get |-> NoGet]
    /\ UNCHANGED cfgFrame

\* reset_to_defaults(): the backups, self.config = self.default_config.copy()
\* and save_main_config, whose result is not looked at
reset_to_defaults ==
    /\ mode = "config"
    /\ cfg.pc \in {"set", "got"}
    /\ \E saved \in BOOLEAN :
         cfg' = [cfg EXCEPT !.pc = "reset",
                            !.config = cfg.defaults,
                            !.shared = copy_shared(cfg.defaults),
                            !.file = IF saved THEN config_to_save(cfg.defaults)
                                     ELSE cfg.file]
    /\ UNCHANGED cfgFrame

\* get(key_path) of the key path just set, as test_config_manager reads it
\* back
cfg_get ==
    /\ mode = "config"
    /\ cfg.pc = "set"
    /\ cfg' = [cfg EXCEPT !.pc = "got",
                          !.last_get = [key_path |-> cfg.last_set.key_path,
                                        ret |-> get(cfg.config,
                                                    cfg.last_set.key_path)]]
    /\ UNCHANGED cfgFrame

Modes == {"gui", "cli", "recorder"}

InitState ==
    /\ mode \in Modes
    /\ opencc_ok \in (IF mode = "gui" THEN BOOLEAN ELSE {TRUE})
    /\ clipboard_ok \in (IF mode = "gui" THEN BOOLEAN ELSE {TRUE})
    /\ is_recording = FALSE
    /\ audio_frames = NoFrames
    /\ history_file \in InitFiles
    /\ history = load_history(history_file)
    /\ clipboard = "c0"
    /\ cap = [w \in Sessions |-> NoCap]
    /\ rec = [w \in Sessions |-> NoRec]
    /\ nstarted = 0
    /\ mainq = <<>>
    /\ hk = "idle"
    /\ outcomes = [w \in Sessions |-> 0]
    /\ backend_calls = [w \in Sessions |-> 0]
    /\ whisper_loads = 0
    /\ cli = IF mode = "cli" THEN [NoCli EXCEPT !.pc = "start"] ELSE NoCli
    /\ ar = NoAr
    /\ sr = NoSr
    /\ cm = NoCm
    /\ cfg = NoCfg

Next ==
    \/ toggle_recording
    \/ trigger_record_check
    \/ trigger_record_act
    \/ \E w \in Sessions : record_audio_open(w)
    \/ \E w \in Sessions : record_audio_test(w)
    \/ \E w \in Sessions : record_audio_read(w)
    \/ \E w \in Sessions : record_audio_finish(w)
    \/ show_message
    \/ on_record_finish
    \/ \E w \in Sessions : do_recognition(w)
    \/ after_recognition
    \/ failure_lambda
    \/ cli_open
    \/ cli_read
    \/ cli_close
    \/ cli_recognize
    \/ start_recording
    \/ stop_recording
    \/ stop_recording_return
    \/ AR_record_audio_test
    \/ AR_record_audio_read
    \/ AR_record_audio_append

\* the programs, with up to MaxSessions sessions started in a run
Init == InitState /\ budget = MaxSessions
Spec == Init /\ [][Next]_vars

\* the programs, with one session started in a run
InitOne == InitState /\ budget = OneSession
SpecOne == InitOne /\ [][Next]_vars

\* the history handlers: fields as __init__ leaves them at lines 119-128,
\* before load_history runs; no session is started
InitHistory ==
    /\ mode = "gui"
    /\ budget = 0
    /\ opencc_ok \in BOOLEAN
    /\ clipboard_ok \in BOOLEAN
    /\ is_recording = FALSE
    /\ audio_frames = NoFrames
    /\ history_file \in HistInitFiles
    /\ history = <<>>
    /\ clipboard = "c0"
    /\ cap = [w \in Sessions |-> NoCap]
    /\ rec = [w \in Sessions |-> NoRec]
    /\ nstarted = 0
    /\ mainq = <<>>
    /\ hk = "idle"
    /\ outcomes = [w \in Sessions |-> 0]
    /\ backend_calls = [w \in Sessions |-> 0]
    /\ whisper_loads = 0
    /\ cli = NoCli
    /\ ar = NoAr
    /\ sr = NoSr
    /\ cm = NoCm
    /\ cfg = NoCfg

NextHistory ==
    \/ init_load_history
    \/ recognitionFinished_emit
    \/ after_recognition
    \/ clear_history_session

SpecHistory == InitHistory /\ [][NextHistory]_vars

\* a SpeechRecognizer as __init__ leaves it, and callers of its methods
InitRecognizer ==
    /\ mode = "recognizer"
    /\ budget = 0
    /\ opencc_ok = TRUE
    /\ clipboard_ok = TRUE
    /\ is_recording = FALSE
    /\ audio_frames = NoFrames
    /\ history_file = MissingFile
    /\ history = <<>>
    /\ clipboard = "c0"
    /\ cap = [w \in Sessions |-> NoCap]
    /\ rec = [w \in Sessions |-> NoRec]
    /\ nstarted = 0
    /\ mainq = <<>>
    /\ hk = "idle"
    /\ outcomes = [w \in Sessions |-> 0]
    /\ backend_calls = [w \in Sessions |-> 0]
    /\ whisper_loads = 0
    /\ cli = NoCli
    /\ ar = NoAr
    /\ sr = NoSr
    /\ cm = NoCm
    /\ cfg = NoCfg

NextRecognizer ==
    \/ set_engine
    \/ call_recognize_from_audio_data
    \/ call_recognize_from_file

SpecRecognizer == InitRecognizer /\ [][NextRecognizer]_vars

\* one chunk read from the stream, in each of the two capture loops
InitLoudness ==
    /\ mode = "loudness"
    /\ budget = 0
    /\ opencc_ok = TRUE
    /\ clipboard_ok = TRUE
    /\ is_recording = FALSE
    /\ audio_frames = NoFrames
    /\ history_file = MissingFile
    /\ history = <<>>
    /\ clipboard = "c0"
    /\ rec = [w \in Sessions |-> NoRec]
    /\ nstarted = 0
    /\ mainq = <<>>
    /\ hk = "idle"
    /\ outcomes = [w \in Sessions |-> 0]
    /\ backend_calls = [w \in Sessions |-> 0]
    /\ whisper_loads = 0
    /\ ar = NoAr
    /\ sr = NoSr
    /\ cm = NoCm
    /\ cfg = NoCfg
    /\ \E data \in Chunks :
         /\ cli = [pc |-> "data", audio_np |-> data, rms2 |-> NoMetric]
         /\ cap = [w \in Sessions |->
                     [pc |-> IF w = 1 THEN "data" ELSE "none",
                      audio_np |-> data, level |-> NoMetric]]

NextLoudness ==
    \/ cli_rms
    \/ gui_level

SpecLoudness == InitLoudness /\ [][NextLoudness]_vars

\* the history files of earlier runs, one of them of a run with a larger
\* max_history
CmFiles == {<<>>, <<"a">>, <<"b", "a">>, <<"a", "b", "a">>}

\* ClipboardManager(max_history, auto_save): load_history has read the
\* entries an earlier run saved
InitClipboard ==
    /\ mode = "clipboard"
    /\ budget = 0
    /\ opencc_ok = TRUE
    /\ clipboard_ok \in BOOLEAN
    /\ is_recording = FALSE
    /\ audio_frames = NoFrames
    /\ history_file = MissingFile
    /\ history = <<>>
    /\ clipboard \in {"", "a"}
    /\ cap = [w \in Sessions |-> NoCap]
    /\ rec = [w \in Sessions |-> NoRec]
    /\ nstarted = 0
    /\ mainq = <<>>
    /\ hk = "idle"
    /\ outcomes = [w \in Sessions |-> 0]
    /\ backend_calls = [w \in Sessions |-> 0]
    /\ whisper_loads = 0
    /\ cli = NoCli
    /\ ar = NoAr
    /\ sr = NoSr
    /\ cfg = NoCfg
    /\ \E auto_save \in BOOLEAN, file \in CmFiles :
         cm = [pc |-> "idle", text |-> "", ncopy |-> 0,
               ret |-> [text |-> "", ok |-> FALSE],
               max_history |-> CmMaxHistory, auto_save |-> auto_save,
               history |-> IF auto_save
                           THEN first_max_history(file, CmMaxHistory)
                           ELSE <<>>,
               file |-> file,
               monitoring |-> FALSE, mon |-> "off",
               current_content |-> "", last_clipboard_content |-> ""]

NextClipboard ==
    \/ copy_text_pyperclip
    \/ copy_text_add
    \/ copy_text_return
    \/ cm_clear_history
    \/ start_monitoring
    \/ stop_monitoring
    \/ monitor_clipboard_init
    \/ monitor_clipboard_paste
    \/ monitor_clipboard_compare
    \/ monitor_clipboard_add
    \/ monitor_clipboard_seen
    \/ cm_load_history
    \/ cm_load_history_trim
    \/ cm_delete_entry

SpecClipboard == InitClipboard /\ [][NextClipboard]_vars

\* ConfigManager(): load_main_config has read the config.json of an earlier
\* run, or has found none and has saved the defaults, the write failing or not
InitConfig ==
    /\ mode = "config"
    /\ budget = 0
    /\ opencc_ok = TRUE
    /\ clipboard_ok = TRUE
    /\ is_recording = FALSE
    /\ audio_frames = NoFrames
    /\ history_file = MissingFile
    /\ history = <<>>
    /\ clipboard = "c0"
    /\ cap = [w \in Sessions |-> NoCap]
    /\ rec = [w \in Sessions |-> NoRec]
    /\ nstarted = 0
    /\ mainq = <<>>
    /\ hk = "idle"
    /\ outcomes = [w \in Sessions |-> 0]
    /\ backend_calls = [w \in Sessions |-> 0]
    /\ whisper_loads = 0
    /\ cli = NoCli
    /\ ar = NoAr
    /\ sr = NoSr
    /\ cm = NoCm
    /\ \E file \in SavedFiles \cup {NoConfigFile} :
         \E written \in (IF file = NoConfigFile
                          THEN {NoConfigFile, config_to_save(default_config)}
                          ELSE {file}) :
           cfg = [pc |-> "idle", config |-> load_main_config(file),
                  defaults |-> default_config,
                  shared |-> IF file = NoConfigFile
                             THEN copy_shared(default_config)
                             ELSE merge_shared(default_config, file),
                  file |-> written, last_set |-> NoSet, last_get |-> NoGet]

NextConfig ==
    \/ cfg_set
    \/ cfg_get
    \/ reset_to_defaults

SpecConfig == InitConfig /\ [][NextConfig]_vars

(***************************************************************************)
(* What the claims speak of.                                               *)
(***************************************************************************)
\* the capture thread of session w has been started and has not ended
CaptureAlive(w) == cap[w].pc \in {"open", "test", "read", "finish"}

NoCaptureAlive == \A w \in Sessions : ~CaptureAlive(w)

\* the do_recognition thread of session w is running
RecognitionRunning(w) == rec[w].pc = "run"

\* an event of session w waits in the main thread's queue
Pending(w, types) ==
    \E i \in 1..Len(mainq) : mainq[i].sess = w /\ mainq[i].type \in types

\* on_record_finish has launched do_recognition for w, and after_recognition
\* has not yet run for it
Finalizing(w) ==
    \/ rec[w].pc = "run"
    \/ rec[w].pc \in {"ok", "failed"} /\ Pending(w, {"after", "fail"})

\* the capture of session w was ended by a device or stream error
Aborted(w) == cap[w].pc \in {"aborted", "dead"}

\* nothing of session w is running or queued any more, and no chunk read
\* of it failed
SessionOver(w) ==
    /\ cap[w].pc \in {"done", "aborted", "dead"}
    /\ ~(cap[w].pc = "dead" /\ cap[w].stream = "open")
    /\ rec[w].pc # "run"
    /\ ~Pending(w, {"finish", "msg", "after", "fail"})

\* the main thread takes the event at the head of its queue, of this type
MainTakes(type) ==
    /\ mainq # <<>>
    /\ Head(mainq).type = type
    /\ mainq' = Tail(mainq)

\* h2 is h with one entry, text, added at the newest (last) place, the
\* oldest entries dropped beyond max_history
GainsNewest(h, h2, text) ==
    /\ Len(h2) = (IF Len(h) + 1 > MaxHistory THEN MaxHistory ELSE Len(h) + 1)
    /\ h2[Len(h2)] = text
    /\ \A i \in 1..(Len(h2) - 1) : h2[i] = h[Len(h) - (Len(h2) - 1) + i]

\* number of entries at the end of the sequence f that are below the threshold
RECURSIVE TrailingBelow(_)
TrailingBelow(f) ==
    IF f = <<>> \/ ~rms_below(f[Len(f)], Threshold) THEN 0
    ELSE 1 + TrailingBelow(SubSeq(f, 1, Len(f) - 1))

\* a capture loop has just read a chunk
GuiChunkRead(w) == cap'[w].n = cap[w].n + 1
CliChunkRead == cli'.i = cli.i + 1

(***************************************************************************)
(* C1: at no instant are two capture workers alive, nor a capture worker   *)
(* alive while another session's recognition worker is running.            *)
(***************************************************************************)
C1_OneSessionAtATime ==
    \A v, w \in Sessions :
        v # w => /\ ~(CaptureAlive(v) /\ CaptureAlive(w))
                 /\ ~(CaptureAlive(v) /\ RecognitionRunning(w))

(***************************************************************************)
(* C2: while a session is Finalizing (do_recognition launched, its result  *)
(* or failure not yet delivered) no step starts a new recording session:   *)
(* a start trigger leaves is_recording, the buffer and the workers as they *)
(* were.                                                                   *)
(***************************************************************************)
C2_NoStartWhileFinalizing ==
    [][(\E w \in Sessions : Finalizing(w))
          => /\ nstarted' = nstarted
             /\ (is_recording = FALSE => is_recording' = FALSE)]_vars

(***************************************************************************)
(* C3: a call of start_recording while is_recording is True returns False  *)
(* and leaves is_recording, the stream, the frames, the recording thread   *)
(* and the number of on_recording_start calls unchanged.                   *)
(***************************************************************************)
C3_StartWhileRecordingIsNoOp ==
    [][(ar'.tick # ar.tick /\ ar'.op = "start" /\ ar.is_recording)
          => /\ ar'.ret = "False"
             /\ ar'.is_recording = ar.is_recording
             /\ ar'.stream = ar.stream
             /\ ar'.frames = ar.frames
             /\ ar'.thread = ar.thread
             /\ ar'.threads = ar.threads
             /\ ar'.start_cb = ar.start_cb]_vars

\* a start_recording call was rejected while a recording holding a chunk runs
C3_Witness ==
    /\ ar.op = "start"
    /\ ar.ret = "False"
    /\ ar.is_recording
    /\ ar.frames > 0
    /\ ar.threads = 1

(***************************************************************************)
(* C4: when the recognition of a non-empty buffer failed, the step that    *)
(* ends the session shows one message to the user and leaves the           *)
(* clipboard, the history and the history file unchanged.                  *)
(***************************************************************************)
C4_FailureLeavesSinkUnchanged ==
    [][MainTakes("fail")
          => /\ outcomes'[Head(mainq).sess] = outcomes[Head(mainq).sess] + 1
             /\ clipboard' = clipboard
             /\ history' = history
             /\ history_file' = history_file]_vars

(***************************************************************************)
(* C5 as stated: when recognition succeeded with non-empty text t, the     *)
(* delivery sets the clipboard to t and the history gains exactly one      *)
(* entry, t, at the newest position.                                       *)
(***************************************************************************)
C5_DeliversBackendText ==
    [][(MainTakes("after") /\ rec[Head(mainq).sess].text # "")
          => LET t == rec[Head(mainq).sess].text
             IN /\ clipboard' = t
                /\ GainsNewest(history, history', t)]_vars

(***************************************************************************)
(* C5 amended: when recognition succeeded with non-empty text t, the       *)
(* delivery adds exactly one entry, to_simplified(t), at the newest        *)
(* position of the history, and sets the clipboard to to_simplified(t)     *)
(* when the system has a working clipboard (it is left unchanged when not).*)
(***************************************************************************)
C5_DeliversSimplifiedText ==
    [][(MainTakes("after") /\ rec[Head(mainq).sess].text # "")
          => LET t == to_simplified(rec[Head(mainq).sess].text)
             IN /\ clipboard' = (IF clipboard_ok THEN t ELSE clipboard)
                /\ GainsNewest(history, history', t)]_vars

\* the traditional text "t" was recognised and delivered as "s"
C5_Witness ==
    \E w \in Sessions :
        /\ rec[w].pc = "ok"
        /\ rec[w].text = "t"
        /\ outcomes[w] = 1
        /\ opencc_ok
        /\ clipboard = "s"
        /\ history = <<"h1", "s">>

(***************************************************************************)
(* C6: delivering a result with empty text writes nothing to the           *)
(* clipboard.                                                              *)
(***************************************************************************)
C6_EmptyTextKeepsClipboard ==
    [][(MainTakes("after") /\ Head(mainq).text = "")
          => clipboard' = clipboard]_vars

(***************************************************************************)
(* C7: a session whose capture was ended by a device or stream error never *)
(* reaches the backend, does not leave its stream open, and does not leave *)
(* the coordinator in Recording: with no capture worker alive,             *)
(* is_recording is False.                                                  *)
(***************************************************************************)
C7_AbortEndsSession ==
    \A w \in Sessions :
        Aborted(w) => /\ backend_calls[w] = 0
                      /\ cap[w].stream # "open"
                      /\ (NoCaptureAlive => ~is_recording)

(***************************************************************************)
(* C8: no session surfaces more than one outcome, and a session of which   *)
(* nothing is running or queued any more has surfaced exactly one and has  *)
(* left the coordinator Idle.                                              *)
(***************************************************************************)
C8_ExactlyOneOutcome ==
    \A w \in Sessions :
        /\ outcomes[w] <= 1
        /\ SessionOver(w) => /\ outcomes[w] = 1
                             /\ (NoCaptureAlive => ~is_recording)

(***************************************************************************)
(* C9: a capture loop is left at the first chunk after which the silence   *)
(* counter has reached the silence limit or the chunks read have reached   *)
(* the maximum: no loop is still running with either reached, and the CLI  *)
(* loop is not left before.                                                *)
(***************************************************************************)
C9_LeavesLoopAtLimit ==
    /\ \A w \in Sessions :
         cap[w].pc \in {"test", "read"}
            => /\ cap[w].silence_count < GuiSilenceChunks
               /\ cap[w].n < GuiMaxChunks
    /\ cli.pc = "loop" => /\ cli.silent_chunks < CliSilenceLimit
                          /\ cli.i < CliMaxChunks
    /\ cli.pc = "close" => \/ cli.silent_chunks >= CliSilenceLimit
                           \/ cli.i >= CliMaxChunks

(***************************************************************************)
(* C10 as stated: a chunk louder than the threshold resets the silence     *)
(* counter to 0, and any other chunk (loudness not exceeding the           *)
(* threshold) increments it.                                               *)
(***************************************************************************)
C10_ResetsOnlyAboveThreshold ==
    [][/\ CliChunkRead
          => LET rms == cli'.frames[Len(cli'.frames)]
             IN cli'.silent_chunks =
                   (IF rms # NaN /\ rms > Threshold
                    THEN 0 ELSE cli.silent_chunks + 1)
       /\ \A w \in Sessions :
            GuiChunkRead(w)
               => cap'[w].silence_count =
                     (IF cap'[w].level > Threshold
                      THEN 0 ELSE cap[w].silence_count + 1)]_vars

(***************************************************************************)
(* C10 amended: a chunk whose computed loudness is strictly below the      *)
(* threshold increments the silence counter, and any other chunk (loudness *)
(* equal to or above the threshold, or not a number) resets it to 0; the   *)
(* counter is the number of consecutive most recent chunks strictly below  *)
(* the threshold.                                                          *)
(***************************************************************************)
C10_IncrementsOnlyBelowThreshold ==
    [][/\ CliChunkRead
          => LET rms == cli'.frames[Len(cli'.frames)]
             IN cli'.silent_chunks =
                   (IF rms # NaN /\ rms < Threshold
                    THEN cli.silent_chunks + 1 ELSE 0)
       /\ \A w \in Sessions :
            GuiChunkRead(w)
               => cap'[w].silence_count =
                     (IF cap'[w].level < Threshold
                      THEN cap[w].silence_count + 1 ELSE 0)
       /\ cli'.silent_chunks = TrailingBelow(cli'.frames)]_vars

\* a chunk exactly at the threshold followed a silent chunk and reset the
\* counter
C10_Witness ==
    /\ Len(cli.frames) >= 2
    /\ rms_below(cli.frames[Len(cli.frames) - 1], Threshold)
    /\ cli.frames[Len(cli.frames)] = Threshold
    /\ cli.silent_chunks = 0

\* the main thread runs the handler of the event at the head of its queue,
\* of this type (the handler may queue events of its own)
MainHandles(type) ==
    /\ mainq # <<>>
    /\ Head(mainq).type = type
    /\ mainq' # mainq
    /\ Len(mainq') <= Len(mainq)

(***************************************************************************)
(* C11: when on_record_finish runs with an empty audio buffer it queues    *)
(* one message for the session, starts no recognition worker, calls no     *)
(* backend and leaves the clipboard, the history and the history file      *)
(* unchanged; a recognition worker is only ever started with a non-empty   *)
(* buffer, and the backend is only ever called by a started worker.        *)
(***************************************************************************)
C11_EmptyBufferFailsWithoutBackend ==
    [][/\ (MainHandles("finish") /\ audio_frames = NoFrames)
          => /\ mainq' = Append(Tail(mainq),
                                Event("msg", Head(mainq).sess, ""))
             /\ rec' = rec
             /\ backend_calls' = backend_calls
             /\ clipboard' = clipboard
             /\ history' = history
             /\ history_file' = history_file
       /\ \A w \in Sessions :
            /\ (rec'[w].pc = "run" /\ rec[w].pc # "run")
                  => audio_frames # NoFrames
            /\ backend_calls'[w] # backend_calls[w] => rec[w].pc = "run"]_vars

\* a session stopped before its first chunk has ended with its one message
\* shown, no recognition worker and no backend call
C11_Witness ==
    \E w \in Sessions :
        /\ cap[w].pc = "done"
        /\ cap[w].n = 0
        /\ audio_frames = NoFrames
        /\ rec[w].pc = "none"
        /\ backend_calls[w] = 0
        /\ outcomes[w] = 1
        /\ mainq = <<>>
        /\ clipboard = "c0"

(***************************************************************************)
(* C12: the history never holds more than max_history entries, and a       *)
(* delivery made when it holds max_history entries drops exactly the       *)
(* oldest one: the entries that stay keep their order and the new text is  *)
(* the newest, max_history entries in all.                                 *)
(***************************************************************************)
C12_HistoryBoundedOldestEvicted ==
    /\ [](Len(history) <= MaxHistory)
    /\ [][(MainTakes("after") /\ Len(history) = MaxHistory)
             => /\ Len(history') = MaxHistory
                /\ history' = Append(Tail(history),
                                     to_simplified(Head(mainq).text))]_vars

\* a delivery into a full history loaded from a file with more than
\* max_history entries: the oldest loaded entry is gone
C12_Witness ==
    /\ Len(history) = MaxHistory
    /\ outcomes[1] = 1
    /\ history[Len(history)] = "s"
    /\ history[1] = HistTexts[3]
    /\ Len(history_file.entries) = MaxHistory

C14_SaveFailureKeepsDelivery ==
    [][(MainTakes("after") /\ clipboard_ok
          /\ history_file' # save_history(history_append(
                                  history, to_simplified(Head(mainq).text))))
          => LET w == Head(mainq).sess
                 t == to_simplified(Head(mainq).text)
             IN /\ outcomes'[w] = outcomes[w] + 1
                /\ clipboard' = t
                /\ GainsNewest(history, history', t)]_vars

\* a result was delivered while the save failed on an unreadable file
C14_Witness ==
    /\ history_file = CorruptFile
    /\ clipboard_ok
    /\ outcomes[1] = 1
    /\ clipboard = "s"
    /\ history = <<"s">>

\* chunks of the sessions 1..k in self.audio_frames
RECURSIVE FramesUpTo(_)
FramesUpTo(k) ==
    IF k = 0 THEN 0 ELSE audio_frames[k] + FramesUpTo(k - 1)

\* len(self.audio_frames)
BufferChunks == FramesUpTo(MaxSessions)

(***************************************************************************)
(* C15: no capture loop is still running once it has read the maximum      *)
(* number of chunks, whatever their loudness, and neither the GUI buffer   *)
(* nor the CLI buffer ever holds more chunks than the maximum.             *)
(***************************************************************************)
C15_CaptureBounded ==
    /\ \A w \in Sessions :
         cap[w].pc \in {"test", "read"} => cap[w].n < GuiMaxChunks
    /\ cli.pc = "loop" => cli.i < CliMaxChunks
    /\ Len(cli.frames) <= CliMaxChunks
    /\ BufferChunks <= GuiMaxChunks

(***************************************************************************)
(* C16: in one run of the process whisper.load_model is executed for       *)
(* transcription at most once, however many sessions are recognised.       *)
(***************************************************************************)
C16_ModelLoadedAtMostOnce ==
    whisper_loads <= 1

(***************************************************************************)
(* C17 as stated: a call of recognize_from_audio_data or                   *)
(* recognize_from_file raises nothing, whatever the input and whatever the *)
(* engine does, and for audio without samples it returns the empty text.   *)
(***************************************************************************)
C17_NeverRaisesEmptyGivesEmptyText ==
    sr.last.fn # "none"
       => /\ sr.last.ret.exc = "none"
          /\ sr.last.input = "empty" => sr.last.ret.text = ""

(***************************************************************************)
(* C17 amended: a call of recognize_from_audio_data or                     *)
(* recognize_from_file raises nothing, whatever the input and whatever the *)
(* engine does: a failure is returned as (None, 0.0); for audio without    *)
(* samples the text returned is None or the empty text.                    *)
(***************************************************************************)
C17_NeverRaisesEmptyGivesNoText ==
    sr.last.fn # "none"
       => /\ sr.last.ret.exc = "none"
          /\ sr.last.ret.text = NoneText
                => FracEq(sr.last.ret.confidence, Frac(0, 1))
          /\ sr.last.input = "empty" => sr.last.ret.text \in {NoneText, ""}

\* recognize_from_file was called on an unreadable file and returned
\* (None, 0.0)
C17_Witness ==
    /\ sr.last.fn = "recognize_from_file"
    /\ sr.last.input = "unreadable"
    /\ sr.last.ret = NoneRet

\* the sum of the scores of the first k segments that carry one
RECURSIVE ScoreSum(_, _)
ScoreSum(segments, k) ==
    IF k = 0 THEN 0
    ELSE ScoreSum(segments, k - 1)
           + (IF segments[k].has_confidence THEN segments[k].confidence ELSE 0)

\* the segments that carry a score
Scored(segments) ==
    {i \in 1..Len(segments) : segments[i].has_confidence}

(***************************************************************************)
(* C18: a text returned by the Whisper backend comes with the arithmetic   *)
(* mean of the scores of the segments that carry one, or with 0.8 when no  *)
(* segment carries a score, and the confidence lies within [0,1].          *)
(***************************************************************************)
C18_ConfidenceIsMeanOrDefault ==
    (sr.last.engine = "WHISPER" /\ sr.last.stage = "ok"
       /\ sr.last.ret.text # NoneText)
       => LET c == sr.last.ret.confidence
              segs == sr.last.segments
          IN /\ IF Scored(segs) = {}
                THEN FracEq(c, Frac(4, 5))
                ELSE c.num * Cardinality(Scored(segs)) * ScoreDen
                        = c.den * ScoreSum(segs, Len(segs))
             /\ 0 <= c.num
             /\ c.num <= c.den

\* a result of two segments, one with the score 1/ScoreDen and one without
\* a score, was returned with the confidence 1/ScoreDen
C18_Witness ==
    /\ sr.last.engine = "WHISPER"
    /\ sr.last.ret.text = "t"
    /\ Len(sr.last.segments) = 2
    /\ Cardinality(Scored(sr.last.segments)) = 1
    /\ sr.last.ret.confidence = Frac(1, ScoreDen)

(***************************************************************************)
(* C19: when copy_text(t) returns True, the system clipboard holds t and   *)
(* get_history() is not empty and has an entry of content t first,         *)
(* whatever the history held before the call.                              *)
(***************************************************************************)
C19_CopiedTextIsNewest ==
    [][(copy_text_return /\ cm'.ret.ok)
          => /\ clipboard' = cm.text
             /\ get_history' # <<>>
             /\ get_history'[1] = cm.text]_vars

(***************************************************************************)
(* C20: when set(k, v) has returned True, get(k) gives v, for every key    *)
(* path k and value v, the keys of k that self.config did not hold         *)
(* included.                                                               *)
(***************************************************************************)
C20_SetThenGetGivesValue ==
    (/\ mode = "config"
     /\ cfg.pc = "got"
     /\ cfg.last_set.ret
     /\ cfg.last_get.key_path = cfg.last_set.key_path)
        => cfg.last_get.ret = cfg.last_set.value

\* set(".a", "a") on the defaults made the dict at the key "" that
\* self.config did not hold and returned True without saving; get(".a")
\* then gave "a"
C20_Witness ==
    /\ mode = "config"
    /\ cfg.pc = "got"
    /\ <<<<>>>> \notin DOMAIN default_config
    /\ cfg.last_set.ret
    /\ cfg.last_set.key_path = <<".", "a">>
    /\ cfg.last_set.value = Scalar(StrNode(<<"a">>))
    /\ cfg.config = set_value(default_config, <<".", "a">>,
                              Scalar(StrNode(<<"a">>))).config
    /\ cfg.config[<<<<>>>>] = DictNode
    /\ cfg.last_get.ret = cfg.last_set.value
    /\ cfg.file = NoConfigFile

(***************************************************************************)
(* C21: load_history on a flat JSON array of strings gives the last        *)
(* max_history strings in the order of the array, and it gives the empty   *)
(* history for a file that cannot be read and for a file that is neither   *)
(* a flat array of strings nor a dict with its entries.                    *)
(***************************************************************************)
FlatArrayOfStrings(file) ==
    /\ file.fmt = "list"
    /\ \A i \in 1..Len(file.entries) : file.entries[i] \notin NonStrings

\* h is the last max_history items of q, in the order of q
LastItemsOf(h, q) ==
    /\ Len(h) = (IF Len(q) > MaxHistory THEN MaxHistory ELSE Len(q))
    /\ \A i \in 1..Len(h) : h[i] = q[Len(q) - Len(h) + i]

C21_LegacyStringsElseEmpty ==
    [][init_load_history
          => /\ FlatArrayOfStrings(history_file)
                  => LastItemsOf(history', history_file.entries)
             /\ (~FlatArrayOfStrings(history_file) /\ history_file.fmt # "dict")
                  => history' = <<>>]_vars

\* C21 as the code has it: every JSON array is taken for the old format,
\* its last max_history items becoming the history as they are; the
\* empty history is what every file that is no array and no dict with
\* well-formed entries gives
C21_ArrayItemsElseEmpty ==
    [][init_load_history
          => /\ history_file.fmt = "list"
                  => LastItemsOf(history', history_file.entries)
             /\ history_file.fmt \notin {"list", "dict"}
                  => history' = <<>>]_vars

\* an old-format file of more than max_history strings has been loaded
C21_Witness ==
    /\ history_file = legacy_file(SubSeq(HistTexts, 1, MaxHistory + 1))
    /\ history = SubSeq(HistTexts, 2, MaxHistory + 1)
    /\ Len(history) = MaxHistory
    /\ outcomes[1] = 0

(***************************************************************************)
(* C22: the buffer on_record_finish hands to recognition for a session     *)
(* holds chunks of that session alone, and no capture thread of another    *)
(* session is writing the buffer while it is read.                         *)
(***************************************************************************)
C22_BufferOwnedBySession ==
    [][MainHandles("finish")
          => \A v \in Sessions \ {Head(mainq).sess} :
                /\ audio_frames[v] = 0
                /\ ~CaptureAlive(v)]_vars

(***************************************************************************)
(* C23: a step of a capture worker, of a recognition worker or of the      *)
(* hotkey listener thread writes none of is_recording, audio_frames and    *)
(* history: these are written by the main thread alone.                    *)
(***************************************************************************)
\* a step taken by a thread other than the Qt main thread
WorkerStep ==
    \/ \E w \in Sessions : CaptureAlive(w) /\ cap'[w] # cap[w]
    \/ \E w \in Sessions : RecognitionRunning(w) /\ rec'[w] # rec[w]
    \/ hk' # hk

C23_WorkersLeaveUiState ==
    [][WorkerStep => UNCHANGED <<is_recording, audio_frames, history>>]_vars

(***************************************************************************)
(* C24: the loudness computed for a chunk of int16 samples is the root of  *)
(* the mean of the squares of the samples divided by full scale, and lies  *)
(* in [0,1], whatever the samples are.                                     *)
(***************************************************************************)
RECURSIVE QuarterSquares(_, _)
\* the sum of the squares of the first k samples, divided by 4 (the samples
\* are even)
QuarterSquares(audio_np, k) ==
    IF k = 0 THEN 0
    ELSE (audio_np[k] \div 2) * (audio_np[k] \div 2)
            + QuarterSquares(audio_np, k - 1)

\* rms2 = num/den is the mean of the squares divided by FullScale^2, in [0,1]
CliIsNormalizedRms(audio_np, rms2) ==
    LET q == QuarterSquares(audio_np, Len(audio_np))
        unit == (FullScale \div 2) * (FullScale \div 2)
    IN /\ rms2.num >= 0
       /\ rms2.num <= rms2.den
       /\ q % unit = 0
       /\ q \div unit = rms2.num

\* level = num/(n * FullScale) is the root of the mean of the squares
\* divided by FullScale, in [0,1]: num >= 0 and num^2 = n * (sum of squares)
GuiIsNormalizedRms(audio_np, level) ==
    /\ level.num >= 0
    /\ level.num <= level.den
    /\ (level.num \div 2) * (level.num \div 2)
          = Len(audio_np) * QuarterSquares(audio_np, Len(audio_np))

C24_LoudnessIsNormalizedRms ==
    mode = "loudness"
        => /\ cli.pc = "rms" => CliIsNormalizedRms(cli.audio_np, cli.rms2)
           /\ cap[1].pc = "level"
                 => GuiIsNormalizedRms(cap[1].audio_np, cap[1].level)

(***************************************************************************)
(* C25: after set calls followed by reset_to_defaults, get(k) gives the    *)
(* built-in default value for every key path k of the default              *)
(* configuration.                                                          *)
(***************************************************************************)
\* the key paths of the values of the default configuration
DefaultKeyPaths ==
    {key_path \in KeyPaths : split(key_path) \in DOMAIN default_config}

C25_ResetRestoresDefaults ==
    (mode = "config" /\ cfg.pc = "reset")
        => \A key_path \in DefaultKeyPaths :
              get(cfg.config, key_path) = get(default_config, key_path)

(***************************************************************************)
(* C26: after any sequence of copy_text, load_history, delete_entry,       *)
(* clear_history and additions of the clipboard monitor, the history holds *)
(* at most max_history entries, newest first: outside a running call the   *)
(* length is within the bound, an entry only ever enters at the front,     *)
(* the entries that stay keep their order, and a history over the bound    *)
(* loses exactly its last entries.                                         *)
(***************************************************************************)
\* no call of the caller's thread is running and the monitor thread is not
\* inside _add_to_history
CmQuiescent ==
    /\ cm.pc = "idle"
    /\ cm.mon \in {"off", "init", "poll", "compare"}

\* the ways two successive values of the history may differ
HistoryStep(old, new, max_history, file) ==
    \/ \E content \in CmTexts : new = <<content>> \o old
    \/ /\ Len(old) > max_history
       /\ new = SubSeq(old, 1, max_history)
    \/ \E i \in 1..Len(old) :
         new = SubSeq(old, 1, i - 1) \o SubSeq(old, i + 1, Len(old))
    \/ new = <<>>
    \/ new = file

C27_OneCopyOneEntry ==
    [][(/\ cm.ncopy = 0
        /\ cm.pc \in AddStages \cup {"return"}
        /\ cm'.history = <<cm.text>> \o cm.history)
          => (cm.history = <<>> \/ cm.history[1] # cm.text)]_vars

(***************************************************************************)
(* C28: copy_text returns False only when nothing was copied: a call that  *)
(* returns False has not passed pyperclip.copy, so the step that returns   *)
(* False starts from the idle caller and leaves the system clipboard and   *)
(* the history as they were.                                               *)
(***************************************************************************)
C28_FalseMeansNothingCopied ==
    [][(cm'.ncopy = cm.ncopy + 1 /\ ~cm'.ret.ok)
          => /\ cm.pc = "idle"
             /\ clipboard' = clipboard
             /\ cm'.history = cm.history]_vars

(***************************************************************************)
(* C29: the sample rate and the sample width declared to the recognition   *)
(* backend for a buffer are the rate and the width the buffer was          *)
(* captured at: the CLI capture handed to recognize_from_audio_data is     *)
(* declared in the format of the capture.                                  *)
(***************************************************************************)
C29_DeclaredFormatIsCaptured ==
    (mode = "cli" /\ cli.pc = "recognized")
        => cli.declared = cli.format

(***************************************************************************)
(* C30: stop_recording called while recording returns the chunks read      *)
(* since the matching start_recording (None if there were none) with       *)
(* is_recording False and the stream released, and once it has returned    *)
(* the recording thread appends no further chunk to frames; called while   *)
(* not recording it returns None and changes nothing.                      *)
(***************************************************************************)
C30_StopReturnsAllChunks ==
    [][/\ (ar.caller = "joining" /\ ar'.caller = "idle")
            => /\ ~ar'.is_recording
               /\ ar'.stream = "none"
               /\ ar'.ret = IF ar.frames > 0 THEN "bytes" ELSE "None"
       /\ (ar.caller = "idle" /\ ar.op = "stop" /\ ar'.op = "stop"
             /\ ar'.tick = ar.tick)
            => ar'.frames = ar.frames
       /\ (ar'.tick # ar.tick /\ ar'.op = "stop" /\ ~ar.is_recording)
            => /\ ar'.ret = "None"
               /\ ar'.is_recording = ar.is_recording
               /\ ar'.stream = ar.stream
               /\ ar'.frames = ar.frames
               /\ ar'.thread = ar.thread]_vars

====
